---- MODULE Spec2Model ----
(***************************************************************************)
(* Model of scripts/photopea_tab.py: the four lifecycle hooks of the       *)
(* Photopea extension (on_before_ui, on_ui_settings, on_ui_tabs,           *)
(* on_app_started), the provisioning function update_photopea and the      *)
(* module-level flag update_success they share.                            *)
(*                                                                         *)
(* Python values are records [t, s, n]: t is the Python type, s the text   *)
(* of a str and n the number of an int or float.  Python strings that the  *)
(* code searches (extension names) are sequences of characters.            *)
(***************************************************************************)
EXTENDS Integers, Sequences, FiniteSets, TLC

VARIABLES
    update_success,   \* module global, line 17
    flag_writes,      \* history: number of assignments to update_success
    data_labels,      \* shared.opts options registered by add_option
    docroot_exists,   \* <app dir>/www.photopea.com is a directory
    git_call,         \* arguments of the latest launch_utils.git_clone call
    git_attempts,     \* history: number of git_clone calls
    log,              \* records emitted through logger
    mounts,           \* routes mounted on the FastAPI app
    result,           \* the latest call: which function, its inputs, its outcome
    raised,           \* history: hooks that raised to the host
    completed,        \* history: hooks that returned to the host
    provisioned,      \* history: what the latest completed on_before_ui fetched
    phase,            \* position of the host in its start-up sequence
    calls             \* history: number of calls made so far

vars == <<update_success, flag_writes, data_labels, docroot_exists, git_call,
          git_attempts, log, mounts, result, raised, completed, provisioned,
          phase, calls>>

----------------------------------------------------------------------------
(* Bounds *)

MaxExt == 2        \* longest list of active extensions
MaxModels == 11    \* largest control_net_max_models_num
MaxCalls == 3      \* calls per run when the caller follows no order

----------------------------------------------------------------------------
(* Python values *)

PyNone == [t |-> "NoneType", s |-> "", n |-> 0]
PyStr(s) == [t |-> "str", s |-> s, n |-> 0]
PyInt(n) == [t |-> "int", s |-> "", n |-> n]
PyFloat(n) == [t |-> "float", s |-> "", n |-> n]
\* a key that is not in shared.opts.data / an attribute shared.opts lacks
Missing == [t |-> "<missing>", s |-> "", n |-> 0]
\* an attribute lookup that raises something other than AttributeError
Raising == [t |-> "<raises>", s |-> "", n |-> 0]
\* a parameter the caller leaves to its default
Omitted == [t |-> "<omitted>", s |-> "", n |-> 0]

default_repo_url == "https://git.nixnet.services/DUOLabs333/Photopea-Offline.git"
photopea_app_dir == "<ext>/app"
photopea_docroot == "<ext>/app/www.photopea.com"
opt_section == <<"photopea", "Photopea">>

----------------------------------------------------------------------------
(* Inputs *)

\* values of shared.opts.data["photopea_repo_url"]
RepoUrlSettings == {Missing, PyStr("https://example.invalid/other.git")}
\* values of shared.opts.data["photopea_commit_hash"]
CommitHashSettings == {Missing, PyStr(""), PyStr("abc123"), PyNone}
\* commit_hash arguments of a direct update_photopea call
CommitHashArgs == {Omitted, PyStr(""), PyStr("abc123"), PyNone}
\* repo_url arguments of a direct update_photopea call
RepoUrlArgs == {PyStr(default_repo_url), PyStr("https://example.invalid/other.git")}

\* values of shared.opts.control_net_max_models_num
ModelNumSettings ==
    {Missing, Raising, PyNone, PyStr("3"), PyFloat(2)}
        \cup {PyInt(n) : n \in 0..MaxModels}

name_foo == <<"f","o","o">>
name_bar == <<"b","a","r">>
name_controlnet ==
    <<"s","d","-","w","e","b","u","i","-","c","o","n","t","r","o","l","n","e","t">>
name_ControlNet ==
    <<"s","d","-","w","e","b","u","i","-","C","o","n","t","r","o","l","N","e","t">>
ExtNames == {name_foo, name_bar, name_controlnet, name_ControlNet}
ExtLists == UNION {[1..k -> ExtNames] : k \in 0..MaxExt}

\* What launch_utils.git_clone does: it returns (the bundle it leaves may or
\* may not hold the document root) or it raises.
FetchOutcomes ==
    {[ok |-> TRUE, docroot |-> d, kind |-> "", cls |-> ""] : d \in BOOLEAN}
        \cup {[ok |-> FALSE, docroot |-> FALSE, kind |-> "network", cls |-> "OSError"],
              [ok |-> FALSE, docroot |-> FALSE, kind |-> "invalid_url", cls |-> "RuntimeError"],
              [ok |-> FALSE, docroot |-> FALSE, kind |-> "checkout", cls |-> "CalledProcessError"]}

\* the classes `except Exception` catches among those git_clone raises
ExceptionSubclasses == {"Exception", "RuntimeError", "OSError", "CalledProcessError"}

----------------------------------------------------------------------------
(* _get_setting, lines 20-21 *)

_get_setting(data, name, default) ==
    IF data[name] = Missing THEN default ELSE data[name]

NoCall == [url |-> PyNone, dir |-> "", name |-> "", commithash |-> PyNone, made |-> FALSE]

(* update_photopea, lines 24-35: one git_clone call; True when it returns,  *)
(* a critical record and False when it raises an Exception.                 *)
\* a plausible slip: `except RuntimeError` in place of `except Exception`
catches_RuntimeErrorOnly(cls) == cls = "RuntimeError"

catches(cls) == cls \in ExceptionSubclasses

\* a plausible slip: a second git_clone call after a failed one
update_photopea_retry(repo_url, target_dir, commit_hash, outcome) ==
    LET call == [url |-> repo_url, dir |-> target_dir, name |-> "Photopea",
                 commithash |-> commit_hash, made |-> TRUE]
    IN  IF outcome.ok
        THEN [calls |-> <<call>>, exc |-> "", ret |-> TRUE, logged |-> <<>>]
        ELSE [calls |-> <<call, call>>, exc |-> "", ret |-> FALSE,
              logged |-> <<[level |-> "CRITICAL",
                            msg |-> "Failed to update Photopea, will not load!"]>>]

update_photopea(repo_url, target_dir, commit_hash, outcome) ==
    LET call == [url |-> repo_url, dir |-> target_dir, name |-> "Photopea",
                 commithash |-> commit_hash, made |-> TRUE]
    IN  IF outcome.ok
        THEN [calls |-> <<call>>, exc |-> "", ret |-> TRUE, logged |-> <<>>]
        ELSE IF catches(outcome.cls)
        THEN [calls |-> <<call>>, exc |-> "", ret |-> FALSE,
              logged |-> <<[level |-> "CRITICAL",
                            msg |-> "Failed to update Photopea, will not load!"]>>]
        ELSE [calls |-> <<call>>, exc |-> outcome.cls, ret |-> FALSE, logged |-> <<>>]

\* the default of the commit_hash parameter, line 24
commit_hash_default(arg) == IF arg = Omitted THEN PyStr("") ELSE arg

\* the file system after git_clone
DocrootAfter(outcome) == IF outcome.ok THEN outcome.docroot ELSE docroot_exists

(* on_before_ui, lines 38-47: reads the two settings, turns an empty commit *)
(* hash into None, provisions and stores the result in update_success.      *)
on_before_ui(data, outcome) ==
    LET repo_url == _get_setting(data, "photopea_repo_url", PyStr(default_repo_url))
        commit_hash == _get_setting(data, "photopea_commit_hash", PyStr(""))
        r == update_photopea(repo_url, photopea_app_dir,
                             IF commit_hash # PyStr("") THEN commit_hash ELSE PyNone,
                             outcome)
    IN  /\ git_call' = r.calls[Len(r.calls)]
        /\ git_attempts' = git_attempts + Len(r.calls)
        /\ log' = log \o r.logged
        /\ docroot_exists' = DocrootAfter(outcome)
        /\ IF r.exc # ""
           THEN /\ raised' = raised \cup {"on_before_ui"}
                /\ UNCHANGED <<update_success, flag_writes, completed, provisioned>>
           ELSE /\ update_success' = r.ret
                /\ flag_writes' = flag_writes + 1
                /\ completed' = completed \cup {"on_before_ui"}
                /\ provisioned' = IF outcome.ok THEN "ok" ELSE "failed"
                /\ UNCHANGED raised
        /\ result' = [fn |-> "on_before_ui",
                      in |-> [repo_url |-> data["photopea_repo_url"],
                              commit_hash |-> data["photopea_commit_hash"],
                              outcome |-> outcome],
                      ret |-> r.ret, exc |-> r.exc, tabs |-> <<>>]
        /\ UNCHANGED <<data_labels, mounts>>

(* A direct call of update_photopea(repo_url, commit_hash=...) with the     *)
(* default target_dir, lines 24-35.  It never assigns update_success.       *)
call_update_photopea(repo_url, commit_hash_arg, outcome) ==
    LET r == update_photopea(repo_url, photopea_app_dir,
                             commit_hash_default(commit_hash_arg), outcome)
    IN  /\ git_call' = r.calls[Len(r.calls)]
        /\ git_attempts' = git_attempts + Len(r.calls)
        /\ log' = log \o r.logged
        /\ docroot_exists' = DocrootAfter(outcome)
        /\ result' = [fn |-> "update_photopea",
                      in |-> [repo_url |-> repo_url, commit_hash |-> commit_hash_arg,
                              outcome |-> outcome],
                      ret |-> r.ret, exc |-> r.exc, tabs |-> <<>>]
        /\ UNCHANGED <<update_success, flag_writes, data_labels, mounts,
                       raised, completed, provisioned>>

(* on_ui_settings, lines 50-70: shared.opts.add_option stores the option    *)
(* under its key, replacing an earlier registration of the same key.        *)
add_option(labels, key, info) ==
    {o \in labels : o.key # key} \cup {[key |-> key, info |-> info]}

OptionInfo(default, label) ==
    [default |-> default, label |-> label, component |-> "Textbox",
     max_lines |-> 1, interactive |-> TRUE, section |-> opt_section]

on_ui_settings ==
    /\ data_labels' =
           add_option(
               add_option(data_labels, "photopea_repo_url",
                          OptionInfo(default_repo_url, "Photopea repository URL")),
               "photopea_commit_hash",
               OptionInfo("", "Photopea repository commit hash"))
    /\ completed' = completed \cup {"on_ui_settings"}
    /\ result' = [fn |-> "on_ui_settings", in |-> [none |-> TRUE],
                  ret |-> FALSE, exc |-> "", tabs |-> <<>>]
    /\ UNCHANGED <<update_success, flag_writes, docroot_exists, git_call,
                   git_attempts, log, mounts, raised, provisioned>>

----------------------------------------------------------------------------
(* on_ui_tabs, lines 73-179 *)

controlnet == <<"c","o","n","t","r","o","l","n","e","t">>

\* Python's `needle in hay` on strings: the first position that matches
RECURSIVE FindFrom(_, _, _)
FindFrom(needle, hay, i) ==
    IF i + Len(needle) - 1 > Len(hay) THEN FALSE
    ELSE IF SubSeq(hay, i, i + Len(needle) - 1) = needle THEN TRUE
    ELSE FindFrom(needle, hay, i + 1)

Contains(needle, hay) == FindFrom(needle, hay, 1)

\* a plausible slip: only the first active extension is looked at
ScanFirstExtension(exts, i) == i <= Len(exts) /\ i = 1 /\ Contains(controlnet, exts[i])

\* the loop of lines 76-80, which stops at the first match
RECURSIVE ScanExtensions(_, _)
ScanExtensions(exts, i) ==
    IF i > Len(exts) THEN FALSE
    ELSE IF Contains(controlnet, exts[i]) THEN TRUE
    ELSE ScanExtensions(exts, i + 1)

controlnet_exists(exts) == ScanExtensions(exts, 1)

\* str(i) of a non-negative int
Digit == <<"0", "1", "2", "3", "4", "5", "6", "7", "8", "9">>

RECURSIVE Str(_)
Str(i) == IF i < 10 THEN Digit[i + 1] ELSE Str(i \div 10) \o Digit[(i % 10) + 1]

\* lines 96-99: the attribute read, with the bare except that turns any
\* error of the read into 1
num_controlnet_models(setting) ==
    IF setting \in {Missing, Raising} THEN PyInt(1) ELSE setting

\* [str(i) for i in range(n)], line 102; range(n) is empty for n <= 0
Choices(n) == [k \in 1..(IF n > 0 THEN n ELSE 0) |-> Str(k - 1)]

\* a plausible slip: >= in place of >
select_visible_from_one(n) == n >= 1

\* line 106
select_visible(n) == n > 1

Button(value, visible) == [value |-> value, visible |-> visible]

photopea_tab(exists, n) ==
    [show_photopea |-> [value |-> "Load Photopea", elem_id |-> "photopeaLoadButton",
                        visible |-> TRUE, js |-> "loadPhotopea"],
     select_target_index |-> [choices |-> Choices(n), value |-> "0",
                              visible |-> select_visible(n)],
     slider |-> [minimum |-> 512, maximum |-> 2160, value |-> 768, step |-> 10],
     help |-> [visible |-> ~exists],
     send_t2i_cn |-> Button("Send to txt2img ControlNet", exists),
     send_extras |-> Button("Send to Extras", TRUE),
     send_i2i |-> Button("Send to img2img", TRUE),
     send_i2i_cn |-> Button("Send to img2img ControlNet", exists),
     send_selection_inpaint |-> Button("Inpaint selection", TRUE)]

\* range(num) of line 102 takes an int; anything else is a TypeError, which
\* nothing in on_ui_tabs catches
on_ui_tabs(exts, setting) ==
    LET exists == controlnet_exists(exts)
        num == num_controlnet_models(setting)
        input == [extensions |-> exts, control_net_max_models_num |-> setting]
    IN  /\ IF num.t = "int"
           THEN /\ result' = [fn |-> "on_ui_tabs", in |-> input, ret |-> FALSE, exc |-> "",
                              tabs |-> <<[tab |-> photopea_tab(exists, num.n),
                                          label |-> "Photopea",
                                          elem_id |-> "photopea_embed"]>>]
                /\ completed' = completed \cup {"on_ui_tabs"}
                /\ UNCHANGED raised
           ELSE /\ result' = [fn |-> "on_ui_tabs", in |-> input, ret |-> FALSE,
                              exc |-> "TypeError", tabs |-> <<>>]
                /\ raised' = raised \cup {"on_ui_tabs"}
                /\ UNCHANGED completed
        /\ UNCHANGED <<update_success, flag_writes, data_labels, docroot_exists,
                       git_call, git_attempts, log, mounts, provisioned>>

----------------------------------------------------------------------------
(* on_app_started, lines 182-194.  StaticFiles(directory=...) checks that  *)
(* the directory exists and raises RuntimeError when it does not.          *)

StaticFiles_raises(docroot) == ~docroot

\* a plausible slip: the mount no longer looks at the flag
mount_unconditional(update_ok) == TRUE

mount_allowed(update_ok) == update_ok = TRUE

on_app_started ==
    /\ IF mount_allowed(update_success)
       THEN IF StaticFiles_raises(docroot_exists)
            THEN /\ raised' = raised \cup {"on_app_started"}
                 /\ result' = [fn |-> "on_app_started", in |-> [none |-> TRUE],
                               ret |-> FALSE, exc |-> "RuntimeError", tabs |-> <<>>]
                 /\ UNCHANGED <<mounts, log, completed>>
            ELSE /\ mounts' = Append(mounts, [path |-> "/photopea",
                                              directory |-> photopea_docroot,
                                              html |-> TRUE, name |-> "photopea"])
                 /\ completed' = completed \cup {"on_app_started"}
                 /\ result' = [fn |-> "on_app_started", in |-> [none |-> TRUE],
                               ret |-> FALSE, exc |-> "", tabs |-> <<>>]
                 /\ UNCHANGED <<log, raised>>
       ELSE /\ log' = Append(log, [level |-> "WARNING",
                                   msg |-> "Photopea not loaded due to update failure!"])
            /\ completed' = completed \cup {"on_app_started"}
            /\ result' = [fn |-> "on_app_started", in |-> [none |-> TRUE],
                          ret |-> FALSE, exc |-> "", tabs |-> <<>>]
            /\ UNCHANGED <<mounts, raised>>
    /\ UNCHANGED <<update_success, flag_writes, data_labels, docroot_exists,
                   git_call, git_attempts, provisioned>>

----------------------------------------------------------------------------
(* The state after the module is imported, lines 10-17 and 197-207 *)

NoResult == [fn |-> "", in |-> [none |-> TRUE], ret |-> FALSE, exc |-> "", tabs |-> <<>>]

InitModule ==
    /\ update_success = FALSE
    /\ flag_writes = 0
    /\ data_labels = {}
    /\ docroot_exists \in BOOLEAN
    /\ git_call = NoCall
    /\ git_attempts = 0
    /\ log = <<>>
    /\ mounts = <<>>
    /\ result = NoResult
    /\ raised = {}
    /\ completed = {}
    /\ provisioned = "never"
    /\ calls = 0

SettingsData ==
    {[k \in {"photopea_repo_url", "photopea_commit_hash"} |->
         IF k = "photopea_repo_url" THEN u ELSE c] :
       u \in RepoUrlSettings, c \in CommitHashSettings}

(* The host calls the four registered callbacks once each, in the order    *)
(* before-UI, settings, tabs, app-started (lines 197-207).  The host       *)
(* reports an exception of a callback and goes on with the next one.       *)

Init == InitModule /\ phase = "start"

HostBeforeUi ==
    /\ phase = "start"
    /\ \E data \in SettingsData, outcome \in FetchOutcomes : on_before_ui(data, outcome)
    /\ phase' = "before_ui"
    /\ calls' = calls + 1

HostUiSettings ==
    /\ phase = "before_ui"
    /\ on_ui_settings
    /\ phase' = "ui_settings"
    /\ calls' = calls + 1

HostUiTabs ==
    /\ phase = "ui_settings"
    /\ \E exts \in ExtLists, setting \in ModelNumSettings : on_ui_tabs(exts, setting)
    /\ phase' = "ui_tabs"
    /\ calls' = calls + 1

HostAppStarted ==
    /\ phase = "ui_tabs"
    /\ on_app_started
    /\ phase' = "app_started"
    /\ calls' = calls + 1

Next == HostBeforeUi \/ HostUiSettings \/ HostUiTabs \/ HostAppStarted

Spec == Init /\ [][Next]_vars

(* Any caller, any order: the four hooks and update_photopea are module    *)
(* level functions that can be called any number of times.                 *)

InitAnyOrder == InitModule /\ phase = "any"

\* the tab inputs tried when the order of the calls is what is explored
SampleExtLists == {<<>>, <<name_foo>>, <<name_foo, name_controlnet>>}
SampleModelNumSettings == {Missing, PyInt(1), PyInt(3), PyStr("3")}

CallBeforeUi ==
    /\ calls < MaxCalls
    /\ \E data \in SettingsData, outcome \in FetchOutcomes : on_before_ui(data, outcome)
    /\ calls' = calls + 1
    /\ UNCHANGED phase

CallUpdatePhotopea ==
    /\ calls < MaxCalls
    /\ \E repo_url \in RepoUrlArgs, commit_hash \in CommitHashArgs,
          outcome \in FetchOutcomes :
            call_update_photopea(repo_url, commit_hash, outcome)
    /\ calls' = calls + 1
    /\ UNCHANGED phase

CallUiSettings ==
    /\ calls < MaxCalls
    /\ on_ui_settings
    /\ calls' = calls + 1
    /\ UNCHANGED phase

CallUiTabs ==
    /\ calls < MaxCalls
    /\ \E exts \in SampleExtLists, setting \in SampleModelNumSettings :
          on_ui_tabs(exts, setting)
    /\ calls' = calls + 1
    /\ UNCHANGED phase

CallAppStarted ==
    /\ calls < MaxCalls
    /\ on_app_started
    /\ calls' = calls + 1
    /\ UNCHANGED phase

NextAnyOrder ==
    CallBeforeUi \/ CallUpdatePhotopea \/ CallUiSettings \/ CallUiTabs \/ CallAppStarted

SpecAnyOrder == InitAnyOrder /\ [][NextAnyOrder]_vars

----------------------------------------------------------------------------
(* Properties *)

LogCount(level) == Cardinality({i \in 1..Len(log) : log[i].level = level})

\* C1: in a host-ordered run on_app_started mounts /photopea if and only if
\* the provisioning of on_before_ui succeeded; after a failed provisioning
\* nothing is mounted and exactly one warning record has been emitted.
C1_MountIffProvisioned ==
    phase = "app_started" =>
        /\ (Len(mounts) = 1) <=> (provisioned = "ok")
        /\ mounts # <<>> => mounts[1].path = "/photopea"
        /\ provisioned = "failed" => (mounts = <<>> /\ LogCount("WARNING") = 1)

\* C2: update_photopea returns True when git_clone returns, and for every
\* failure git_clone raises it emits a critical record and returns False;
\* no exception leaves update_photopea.
C2_UpdateNeverRaises ==
    result.fn = "update_photopea" =>
        /\ result.exc = ""
        /\ result.in.outcome.ok => result.ret = TRUE
        /\ ~result.in.outcome.ok =>
              /\ result.ret = FALSE
              /\ log # <<>>
              /\ log[Len(log)].level = "CRITICAL"

C2_Witness ==
    /\ result.fn = "update_photopea"
    /\ result.in.outcome.kind = "network"
    /\ result.ret = FALSE

\* C3: each of the four hooks returns to the host without raising, for every
\* provisioning outcome, bundle content and value of the external settings.
C3_HooksReturnCleanly == raised = {}

\* C4: in the tab on_ui_tabs builds, the two ControlNet send buttons are
\* visible exactly when some active extension's name contains "controlnet",
\* the help message exactly when none does, and the other send buttons always.
NameHasControlnet(name) ==
    \E i \in 1..Len(name) :
        /\ i + 9 <= Len(name)
        /\ <<name[i], name[i+1], name[i+2], name[i+3], name[i+4],
             name[i+5], name[i+6], name[i+7], name[i+8], name[i+9]>>
               = <<"c","o","n","t","r","o","l","n","e","t">>

C4_CompanionVisibility ==
    (result.fn = "on_ui_tabs" /\ result.tabs # <<>>) =>
        LET t == result.tabs[1].tab
            exts == result.in.extensions
            present == \E k \in 1..Len(exts) : NameHasControlnet(exts[k])
        IN  /\ t.send_t2i_cn.visible <=> present
            /\ t.send_i2i_cn.visible <=> present
            /\ t.help.visible <=> ~present
            /\ t.send_extras.visible
            /\ t.send_i2i.visible
            /\ t.send_selection_inpaint.visible

C4_Witness ==
    /\ result.fn = "on_ui_tabs"
    /\ result.in.extensions = <<name_foo, name_controlnet>>
    /\ result.tabs # <<>>
    /\ result.tabs[1].tab.send_t2i_cn.visible
    /\ ~result.tabs[1].tab.help.visible

\* C5: with control_net_max_models_num equal to 1, absent or failing to read,
\* the index selector is hidden with value "0"; with an integer n > 1 it is
\* visible, its choices are "0" .. "n-1" in order and "0" is one of them.
DecimalNames ==
    <<"0", "1", "2", "3", "4", "5", "6", "7", "8", "9", "10", "11", "12", "13",
      "14", "15", "16", "17", "18", "19", "20">>

C5_SelectorVisibility ==
    result.fn = "on_ui_tabs" =>
        LET setting == result.in.control_net_max_models_num
        IN  /\ setting \in {PyInt(1), Missing, Raising} =>
                  /\ result.tabs # <<>>
                  /\ ~result.tabs[1].tab.select_target_index.visible
                  /\ result.tabs[1].tab.select_target_index.value = "0"
            /\ (setting.t = "int" /\ setting.n > 1) =>
                  /\ result.tabs # <<>>
                  /\ result.tabs[1].tab.select_target_index.visible
                  /\ result.tabs[1].tab.select_target_index.choices
                        = SubSeq(DecimalNames, 1, setting.n)
                  /\ result.tabs[1].tab.select_target_index.value = "0"
                  /\ \E k \in 1..setting.n :
                        result.tabs[1].tab.select_target_index.choices[k] = "0"

C5_Witness ==
    /\ result.fn = "on_ui_tabs"
    /\ result.in.control_net_max_models_num = PyInt(11)
    /\ result.tabs # <<>>
    /\ result.tabs[1].tab.select_target_index.visible
    /\ result.tabs[1].tab.select_target_index.choices[11] = "10"

\* C6: a provisioning run with an empty or absent revision (on_before_ui with
\* the commit-hash setting empty or unset, update_photopea with commit_hash
\* left to its default) calls git_clone with commithash None, never with "";
\* a non-empty revision is passed on unchanged.
C6_EmptyRevisionIsNone ==
    result.fn \in {"on_before_ui", "update_photopea"} =>
        /\ result.in.commit_hash \in {Missing, Omitted, PyStr("")} =>
              git_call.commithash = PyNone
        /\ git_call.commithash # PyStr("")
        /\ result.in.commit_hash = PyStr("abc123") =>
              git_call.commithash = PyStr("abc123")

\* C7: in a host-ordered run git_clone is attempted exactly once and
\* update_success is assigned exactly once, by on_before_ui, with the boolean
\* that attempt returned; the other hooks leave the flag alone.
C7_SingleAttemptSingleWrite ==
    [][/\ phase = "start" =>
            /\ git_attempts = 0 /\ flag_writes = 0
            /\ git_attempts' = 1 /\ flag_writes' = 1
            /\ result'.fn = "on_before_ui"
            /\ update_success' = result'.ret
            /\ result'.ret = result'.in.outcome.ok
       /\ phase # "start" =>
            /\ git_attempts' = git_attempts /\ git_attempts = 1
            /\ flag_writes' = flag_writes /\ flag_writes = 1
            /\ update_success' = update_success]_vars

C7_Witness ==
    /\ phase = "app_started"
    /\ git_attempts = 1
    /\ flag_writes = 1
    /\ provisioned = "failed"
    /\ ~update_success

\* C8: when control_net_max_models_num is absent or is not an integer,
\* on_ui_tabs falls back to one target: it completes, and the selector has
\* the single choice "0" and is hidden.
C8_WrongTypeFallsBack ==
    (/\ result.fn = "on_ui_tabs"
     /\ \/ result.in.control_net_max_models_num = Missing
        \/ result.in.control_net_max_models_num.t \in {"NoneType", "str", "float"}) =>
        /\ result.exc = ""
        /\ result.tabs # <<>>
        /\ result.tabs[1].tab.select_target_index.choices = <<"0">>
        /\ ~result.tabs[1].tab.select_target_index.visible

\* C9: whatever the provisioning outcome, on_ui_settings registers both
\* options, on_ui_tabs returns exactly one tab descriptor ("Photopea",
\* "photopea_embed") holding the load button, and the run ends either mounted
\* or not mounted.
C9_UiBuiltRegardless ==
    /\ phase \in {"ui_settings", "ui_tabs", "app_started"} =>
          {o.key : o \in data_labels} = {"photopea_repo_url", "photopea_commit_hash"}
    /\ phase = "ui_tabs" =>
          /\ Len(result.tabs) = 1
          /\ result.tabs[1].label = "Photopea"
          /\ result.tabs[1].elem_id = "photopea_embed"
          /\ result.tabs[1].tab.show_photopea.visible
    /\ phase = "app_started" =>
          /\ {"on_ui_settings", "on_ui_tabs", "on_app_started"} \subseteq completed
          /\ \/ Len(mounts) = 1 /\ LogCount("WARNING") = 0
             \/ Len(mounts) = 0 /\ LogCount("WARNING") = 1

\* C10: in any order and number of calls, on_app_started mounts only when an
\* on_before_ui call has completed and the latest one fetched successfully;
\* before any on_before_ui it mounts nothing.
C10_NoMountBeforeProvisioning ==
    [][Len(mounts') > Len(mounts) => provisioned = "ok"]_vars

C10_Witness ==
    /\ result.fn = "on_app_started"
    /\ mounts # <<>>
    /\ provisioned = "ok"
    /\ calls = 2

====
